---- MODULE Spec2Model ----
(***************************************************************************)
(* Streaming response decoder and event classifier of invoke_agentcore.py: *)
(* process_streaming_chunk, stream_response (SSE path) and                 *)
(* handle_non_streaming_response (fallback path).                          *)
(*                                                                         *)
(* Text is a sequence of Unicode code points, bytes are a sequence of      *)
(* 0..255.  Python values are records [t, s, n, keys, items] with t the    *)
(* Python type name.                                                       *)
(***************************************************************************)
EXTENDS Integers, Sequences, FiniteSets, TLC

(***************************************************************************)
(* Characters and text                                                     *)
(***************************************************************************)

\* F(x) with x evaluated once, however often F uses it.
Let(x, F(_)) == CHOOSE y \in {F(v) : v \in {x}} : TRUE

\* The printable ASCII characters 32..95 and 97..126, in code point order.
PrintableLow ==
    " !\"#$%&'()*+,-./0123456789:;<=>?@ABCDEFGHIJKLMNOPQRSTUVWXYZ[\\]^_"

PrintableHigh == "abcdefghijklmnopqrstuvwxyz{|}~"

\* ord(c) of a one-character string.
Ord(c) ==
    IF c = "\n" THEN 10
    ELSE IF c = "\t" THEN 9
    ELSE IF c = "\r" THEN 13
    ELSE IF \E i \in 1..Len(PrintableLow) : SubSeq(PrintableLow, i, i) = c
    THEN 31 + (CHOOSE i \in 1..Len(PrintableLow) :
                   SubSeq(PrintableLow, i, i) = c)
    ELSE 96 + (CHOOSE i \in 1..Len(PrintableHigh) :
                   SubSeq(PrintableHigh, i, i) = c)

\* A string literal of the source as text.
S(str) == [i \in 1..Len(str) |-> Ord(SubSeq(str, i, i))]

RECURSIVE ConcatRange(_, _, _)
\* parts[i] \o ... \o parts[j], halving the range.
ConcatRange(parts, i, j) ==
    IF j < i THEN <<>>
    ELSE IF i = j THEN parts[i]
    ELSE ConcatRange(parts, i, (i + j) \div 2)
         \o ConcatRange(parts, ((i + j) \div 2) + 1, j)

\* "".join(parts) for a sequence of texts.
Concat(parts) == Let(parts, LAMBDA p : ConcatRange(p, 1, Len(p)))

\* s.startswith(prefix)
StartsWith(s, prefix) ==
    /\ Len(prefix) <= Len(s)
    /\ SubSeq(s, 1, Len(prefix)) = prefix

\* sub in s
Contains(s, sub) ==
    \E i \in 0..(Len(s) - Len(sub)) : SubSeq(s, i + 1, i + Len(sub)) = sub

\* The characters str.strip() removes.
StripChars == {9, 10, 11, 12, 13, 28, 29, 30, 31, 32, 133, 160}

\* s.strip()
Strip(s) ==
    Let({i \in 1..Len(s) : s[i] \notin StripChars}, LAMBDA keep :
        IF keep = {} THEN <<>>
        ELSE SubSeq(s, CHOOSE i \in keep : \A j \in keep : i <= j,
                       CHOOSE i \in keep : \A j \in keep : j <= i))

\* A slice one character longer than asked for.
TakeOneMore(s, n) == SubSeq(s, 1, IF n + 1 < Len(s) THEN n + 1 ELSE Len(s))

\* s[:n]
Take(s, n) == SubSeq(s, 1, IF n < Len(s) THEN n ELSE Len(s))

\* s[i-1:j], places counted from 1.
Slice(s, i, j) == SubSeq(s, i, IF j < Len(s) THEN j ELSE Len(s))

(***************************************************************************)
(* UTF-8                                                                   *)
(***************************************************************************)

\* U+FFFD, what errors="replace" substitutes.
REPLACEMENT == 65533

\* The UTF-8 encoding of one code point.
EncodeChar(c) ==
    IF c < 128 THEN <<c>>
    ELSE IF c < 2048 THEN <<192 + (c \div 64), 128 + (c % 64)>>
    ELSE IF c < 65536 THEN
        <<224 + (c \div 4096), 128 + ((c \div 64) % 64), 128 + (c % 64)>>
    ELSE <<240 + (c \div 262144), 128 + ((c \div 4096) % 64),
           128 + ((c \div 64) % 64), 128 + (c % 64)>>

\* text.encode("utf-8")
Utf8Encode(text) == Concat([k \in 1..Len(text) |-> EncodeChar(text[k])])

\* Bytes a sequence led by byte b0 takes; 0 when b0 cannot lead one.
SeqLen(b0) ==
    IF b0 < 128 THEN 1
    ELSE IF b0 >= 194 /\ b0 <= 223 THEN 2
    ELSE IF b0 >= 224 /\ b0 <= 239 THEN 3
    ELSE IF b0 >= 240 /\ b0 <= 244 THEN 4
    ELSE 0

\* Whether byte c may stand at offset k (1..3) after lead byte b0.
ValidCont(b0, k, c) ==
    IF k = 1 /\ b0 = 224 THEN c >= 160 /\ c <= 191
    ELSE IF k = 1 /\ b0 = 237 THEN c >= 128 /\ c <= 159
    ELSE IF k = 1 /\ b0 = 240 THEN c >= 144 /\ c <= 191
    ELSE IF k = 1 /\ b0 = 244 THEN c >= 128 /\ c <= 143
    ELSE c >= 128 /\ c <= 191

\* Whether b[i] continues a sequence begun by a lead byte 1..3 places before.
Covered(b, i) ==
    \E d \in 1..3 :
        /\ i - d >= 1
        /\ SeqLen(b[i - d]) > d
        /\ \A k \in 1..d : ValidCont(b[i - d], k, b[i - d + k])

\* Whether the sequence that starts at b[i] is complete and well formed.
Complete(b, i) ==
    /\ SeqLen(b[i]) >= 1
    /\ i + SeqLen(b[i]) - 1 <= Len(b)
    /\ \A k \in 1..(SeqLen(b[i]) - 1) : ValidCont(b[i], k, b[i + k])

\* The code point of the complete sequence at b[i].
CodePoint(b, i) ==
    LET n == SeqLen(b[i])
    IN  IF n = 1 THEN b[i]
        ELSE IF n = 2 THEN (b[i] - 192) * 64 + (b[i + 1] - 128)
        ELSE IF n = 3 THEN
            (b[i] - 224) * 4096 + (b[i + 1] - 128) * 64 + (b[i + 2] - 128)
        ELSE (b[i] - 240) * 262144 + (b[i + 1] - 128) * 4096
             + (b[i + 2] - 128) * 64 + (b[i + 3] - 128)

\* The places of b where a character or a replaced run starts.
Starts(b) ==
    SelectSeq([i \in 1..Len(b) |-> i], LAMBDA i : ~Covered(b, i))

\* bytes.decode("utf-8") raises UnicodeDecodeError.
DecodeFails(b) == \E i \in 1..Len(b) : ~Covered(b, i) /\ ~Complete(b, i)

\* bytes.decode("utf-8") when it does not raise.
DecodeStrict(b) ==
    Let(Starts(b), LAMBDA st : [j \in 1..Len(st) |-> CodePoint(b, st[j])])

\* bytes.decode("utf-8", errors="replace")
DecodeReplace(b) ==
    Let(Starts(b), LAMBDA st :
        [j \in 1..Len(st) |->
            IF Complete(b, st[j]) THEN CodePoint(b, st[j]) ELSE REPLACEMENT])

(***************************************************************************)
(* Python values                                                           *)
(***************************************************************************)

VNone == [t |-> "NoneType", s |-> <<>>, n |-> 0, keys |-> <<>>, items |-> <<>>]

VStr(text) == [t |-> "str", s |-> text, n |-> 0, keys |-> <<>>, items |-> <<>>]

VInt(k) == [t |-> "int", s |-> <<>>, n |-> k, keys |-> <<>>, items |-> <<>>]

VBool(b) ==
    [t |-> "bool", s |-> <<>>, n |-> IF b THEN 1 ELSE 0, keys |-> <<>>,
     items |-> <<>>]

\* A float: digits are its significant decimal digits ("0" for zero), after
\* a minus sign when it is negative, and the value is 0.digits * 10^point.
VFloat(neg, digits, point) ==
    [t |-> "float", s |-> (IF neg THEN <<45>> ELSE <<>>) \o digits, n |-> point,
     keys |-> <<>>, items |-> <<>>]

\* float("nan"), float("inf") and float("-inf"), by their repr.
VNonFinite(name) == [t |-> "float", s |-> name, n |-> 0, keys |-> <<>>, items |-> <<>>]

VList(vals) == [t |-> "list", s |-> <<>>, n |-> 0, keys |-> <<>>, items |-> vals]

\* A dict with keys ks[i] (texts) bound to vals[i].
VDict(ks, vals) == [t |-> "dict", s |-> <<>>, n |-> 0, keys |-> ks, items |-> vals]

\* isinstance(v, dict), isinstance(v, list), isinstance(v, str)
IsDict(v) == v.t = "dict"

IsList(v) == v.t = "list"

IsStr(v) == v.t = "str"

\* key in d
HasKey(d, key) == \E i \in 1..Len(d.keys) : d.keys[i] = key

\* d[key]
Item(d, key) == d.items[CHOOSE i \in 1..Len(d.keys) : d.keys[i] = key]

\* d.get(key, default)
Get(d, key, default) == IF HasKey(d, key) THEN Item(d, key) ELSE default

\* d[key] = v on a dict under construction.
DictSet(d, key, v) ==
    IF HasKey(d, key)
    THEN [d EXCEPT !.items[CHOOSE i \in 1..Len(d.keys) : d.keys[i] = key] = v]
    ELSE [d EXCEPT !.keys = Append(@, key), !.items = Append(@, v)]

\* bool(v): what `if v:` tests.
Truthy(v) ==
    IF v.t = "str" THEN v.s # <<>>
    ELSE IF v.t \in {"int", "bool"} THEN v.n # 0
    ELSE IF v.t = "float" THEN v.s # <<48>> /\ v.s # <<45, 48>>
    ELSE IF v.t \in {"list", "dict"} THEN v.items # <<>>
    ELSE FALSE

RECURSIVE DecimalDigits(_)
\* The decimal digits of a natural number.
DecimalDigits(k) ==
    IF k < 10 THEN <<48 + k>> ELSE Append(DecimalDigits(k \div 10), 48 + (k % 10))

\* repr(x) of a float: fixed notation when the decimal point falls within
\* -4 < point <= 16, scientific notation otherwise.
FloatRepr(v) ==
    IF v.s \in {S("nan"), S("inf"), S("-inf")} THEN v.s
    ELSE LET neg == v.s[1] = 45
             d == IF neg THEN Tail(v.s) ELSE v.s
             p == v.n
             zeros(k) == [j \in 1..k |-> 48]
             e == IF p - 1 < 0 THEN 1 - p ELSE p - 1
         IN  (IF neg THEN <<45>> ELSE <<>>)
             \o (IF d = <<48>> THEN <<48, 46, 48>>
                 ELSE IF p > 16 \/ p < -3 THEN
                     <<d[1]>> \o (IF Len(d) > 1 THEN <<46>> \o Tail(d) ELSE <<>>)
                     \o <<101, IF p - 1 < 0 THEN 45 ELSE 43>>
                     \o (IF e < 10 THEN <<48>> ELSE <<>>) \o DecimalDigits(e)
                 ELSE IF p <= 0 THEN <<48, 46>> \o zeros(-p) \o d
                 ELSE IF p >= Len(d) THEN d \o zeros(p - Len(d)) \o <<46, 48>>
                 ELSE SubSeq(d, 1, p) \o <<46>> \o SubSeq(d, p + 1, Len(d)))

RECURSIVE Repr(_)
RECURSIVE ReprItems(_, _, _)
\* repr(v) of a value json.loads built (strings hold no quote, backslash or
\* control character here).
Repr(v) ==
    IF v.t = "str" THEN <<39>> \o v.s \o <<39>>
    ELSE IF v.t = "int" THEN
        (IF v.n < 0 THEN <<45>> \o DecimalDigits(-v.n) ELSE DecimalDigits(v.n))
    ELSE IF v.t = "float" THEN FloatRepr(v)
    ELSE IF v.t = "bool" THEN (IF v.n = 1 THEN S("True") ELSE S("False"))
    ELSE IF v.t = "list" THEN <<91>> \o ReprItems(v, 1, FALSE) \o <<93>>
    ELSE IF v.t = "dict" THEN <<123>> \o ReprItems(v, 1, TRUE) \o <<125>>
    ELSE S("None")

\* The items of a list or dict from place i on, as repr joins them.
ReprItems(v, i, withKeys) ==
    IF i > Len(v.items) THEN <<>>
    ELSE (IF i > 1 THEN S(", ") ELSE <<>>)
         \o (IF withKeys THEN <<39>> \o v.keys[i] \o <<39>> \o S(": ") ELSE <<>>)
         \o Repr(v.items[i])
         \o ReprItems(v, i + 1, withKeys)

\* str(v)
Str(v) == IF v.t = "str" THEN v.s ELSE Repr(v)

(***************************************************************************)
(* json.loads                                                              *)
(***************************************************************************)

\* The whitespace json skips.
JsonWs == {32, 9, 10, 13}

\* A parse that raised JSONDecodeError.
Fail == [ok |-> FALSE, val |-> VNone, end |-> 0]

\* A parse that produced val and stopped before place end.
Parsed(val, end) == [ok |-> TRUE, val |-> val, end |-> end]

\* The first place from i on that holds no whitespace.
SkipWs(s, i) ==
    IF \E j \in i..Len(s) : s[j] \notin JsonWs
    THEN CHOOSE j \in i..Len(s) :
             s[j] \notin JsonWs /\ \A k \in i..(j - 1) : s[k] \in JsonWs
    ELSE Len(s) + 1

\* s[i], or 0 past the end.
At(s, i) == IF i >= 1 /\ i <= Len(s) THEN s[i] ELSE 0

\* What a backslash escape stands for (\uXXXX is not modelled).
Unescape(c) ==
    IF c = 98 THEN 8
    ELSE IF c = 102 THEN 12
    ELSE IF c = 110 THEN 10
    ELSE IF c = 114 THEN 13
    ELSE IF c = 116 THEN 9
    ELSE c

\* Whether c ends a run of plain string content: the closing quote, a
\* backslash or a control character.
EndsRun(c) == c = 34 \/ c = 92 \/ c < 32

RECURSIVE ScanString(_, _, _)
\* scanstring from place i, just after the opening quote or an escape; acc
\* is the content scanned so far.
ScanString(s, i, acc) ==
    IF \A j \in i..Len(s) : ~EndsRun(s[j]) THEN Fail
    ELSE Let(CHOOSE j \in i..Len(s) :
                 EndsRun(s[j]) /\ \A k \in i..(j - 1) : ~EndsRun(s[k]),
             LAMBDA q :
                 IF s[q] = 34
                 THEN Parsed(VStr(acc \o SubSeq(s, i, q - 1)), q + 1)
                 ELSE IF s[q] = 92
                         /\ At(s, q + 1) \in {34, 92, 47, 98, 102, 110, 114, 116}
                 THEN ScanString(s, q + 2,
                                 acc \o SubSeq(s, i, q - 1)
                                 \o <<Unescape(s[q + 1])>>)
                 ELSE Fail)

\* The place after the run of digits that starts at i.
DigitsEnd(s, i) ==
    IF \E j \in i..Len(s) : s[j] < 48 \/ s[j] > 57
    THEN CHOOSE j \in i..Len(s) :
             (s[j] < 48 \/ s[j] > 57) /\ \A k \in i..(j - 1) : s[k] >= 48 /\ s[k] <= 57
    ELSE Len(s) + 1

RECURSIVE DigitsValue(_, _, _)
\* int() of the digits s[i..j].
DigitsValue(s, i, j) ==
    IF j < i THEN 0 ELSE DigitsValue(s, i, j - 1) * 10 + (s[j] - 48)

\* Whether c is a decimal digit.
IsDigit(c) == c >= 48 /\ c <= 57

\* Where the fraction (\.\d+)? of NUMBER_RE ends when the integer part ends
\* before place e: e itself when there is no fraction.
FracEnd(s, e) ==
    IF At(s, e) = 46 /\ IsDigit(At(s, e + 1)) THEN DigitsEnd(s, e + 1) ELSE e

\* The place of the first digit of an exponent that starts at place f.
ExpDigits(s, f) == IF At(s, f + 1) \in {43, 45} THEN f + 2 ELSE f + 1

\* Where the exponent ([eE][-+]?\d+)? of NUMBER_RE ends when the fraction
\* ends before place f: f itself when there is no exponent.
ExpEnd(s, f) ==
    IF At(s, f) \in {101, 69} /\ IsDigit(At(s, ExpDigits(s, f)))
    THEN DigitsEnd(s, ExpDigits(s, f))
    ELSE f

\* The value of the exponent between places f and g - 1; 0 without one.
ExpValue(s, f, g) ==
    IF g = f THEN 0
    ELSE IF At(s, f + 1) = 45 THEN -DigitsValue(s, ExpDigits(s, f), g - 1)
    ELSE DigitsValue(s, ExpDigits(s, f), g - 1)

\* float(integer + frac + exp): the value digits * 10^exp10 (literals of up
\* to 15 significant digits, which float() and repr() carry unchanged).
MakeFloat(neg, digits, exp10) ==
    LET nz == {k \in 1..Len(digits) : digits[k] # 48}
    IN  IF nz = {} THEN VFloat(neg, <<48>>, 1)
        ELSE LET a == CHOOSE k \in nz : \A j \in nz : k <= j
                 b == CHOOSE k \in nz : \A j \in nz : k >= j
             IN  VFloat(neg, SubSeq(digits, a, b), Len(digits) - a + 1 + exp10)

\* The number NUMBER_RE matches at place i: an int, or a float when a
\* fraction or an exponent follows the integer part.
ScanNumber(s, i) ==
    Let(IF At(s, i) = 45 THEN i + 1 ELSE i, LAMBDA d :
        IF ~IsDigit(At(s, d)) THEN Fail
        ELSE Let(IF At(s, d) = 48 THEN d + 1 ELSE DigitsEnd(s, d), LAMBDA e :
             Let(FracEnd(s, e), LAMBDA f :
             Let(ExpEnd(s, f), LAMBDA g :
                 IF g = e
                 THEN Parsed(VInt(IF d > i THEN -DigitsValue(s, d, e - 1)
                                  ELSE DigitsValue(s, d, e - 1)), e)
                 ELSE Parsed(MakeFloat(d > i,
                                       Slice(s, d, e - 1)
                                       \o (IF f > e THEN Slice(s, e + 1, f - 1)
                                           ELSE <<>>),
                                       ExpValue(s, f, g)
                                       - (IF f > e THEN f - e - 1 ELSE 0)),
                             g)))))

RECURSIVE ScanOnce(_, _)
RECURSIVE ScanMembers(_, _, _)
RECURSIVE ScanElements(_, _, _)
\* scan_once: the value that starts at place i.
ScanOnce(s, i) ==
    IF At(s, i) = 34 THEN ScanString(s, i + 1, <<>>)
    ELSE IF At(s, i) = 123 THEN
        Let(SkipWs(s, i + 1), LAMBDA j :
            IF At(s, j) = 125 THEN Parsed(VDict(<<>>, <<>>), j + 1)
            ELSE IF At(s, j) = 34 THEN ScanMembers(s, j + 1, VDict(<<>>, <<>>))
            ELSE Fail)
    ELSE IF At(s, i) = 91 THEN
        Let(SkipWs(s, i + 1), LAMBDA j :
            IF At(s, j) = 93 THEN Parsed(VList(<<>>), j + 1)
            ELSE ScanElements(s, j, <<>>))
    ELSE IF Slice(s, i, i + 3) = S("null") THEN Parsed(VNone, i + 4)
    ELSE IF Slice(s, i, i + 3) = S("true") THEN Parsed(VBool(TRUE), i + 4)
    ELSE IF Slice(s, i, i + 4) = S("false") THEN Parsed(VBool(FALSE), i + 5)
    ELSE IF Slice(s, i, i + 2) = S("NaN") THEN Parsed(VNonFinite(S("nan")), i + 3)
    ELSE IF Slice(s, i, i + 7) = S("Infinity")
    THEN Parsed(VNonFinite(S("inf")), i + 8)
    ELSE IF Slice(s, i, i + 8) = S("-Infinity")
    THEN Parsed(VNonFinite(S("-inf")), i + 9)
    ELSE ScanNumber(s, i)

\* JSONObject from place i, just after the opening quote of a key; d holds
\* the members scanned so far.
ScanMembers(s, i, d) ==
    Let(ScanString(s, i, <<>>), LAMBDA key :
        IF ~key.ok \/ At(s, SkipWs(s, key.end)) # 58 THEN Fail
        ELSE Let(ScanOnce(s, SkipWs(s, SkipWs(s, key.end) + 1)), LAMBDA val :
            IF ~val.ok THEN Fail
            ELSE Let(SkipWs(s, val.end), LAMBDA next :
                IF At(s, next) = 125
                THEN Parsed(DictSet(d, key.val.s, val.val), next + 1)
                ELSE IF At(s, next) = 44 /\ At(s, SkipWs(s, next + 1)) = 34
                THEN Let(DictSet(d, key.val.s, val.val), LAMBDA d2 :
                         Let(SkipWs(s, next + 1) + 1, LAMBDA i2 :
                             ScanMembers(s, i2, d2)))
                ELSE Fail)))

\* JSONArray from place i, where an element starts; acc holds the elements
\* scanned so far.
ScanElements(s, i, acc) ==
    Let(ScanOnce(s, i), LAMBDA val :
        IF ~val.ok THEN Fail
        ELSE Let(SkipWs(s, val.end), LAMBDA next :
            IF At(s, next) = 93
            THEN Parsed(VList(Append(acc, val.val)), next + 1)
            ELSE IF At(s, next) = 44
            THEN Let(Append(acc, val.val), LAMBDA acc2 :
                     Let(SkipWs(s, next + 1), LAMBDA i2 :
                         ScanElements(s, i2, acc2)))
            ELSE Fail))

\* A parser that takes the first value of text and ignores what follows it.
JsonLoadsFirstValue(text) ==
    Let(text, LAMBDA s : ScanOnce(s, SkipWs(s, 1)))

\* json.loads(text): ok is FALSE when it raises JSONDecodeError.
JsonLoads(text) ==
    Let(text, LAMBDA s :
        Let(ScanOnce(s, SkipWs(s, 1)), LAMBDA r :
            IF r.ok /\ SkipWs(s, r.end) = Len(s) + 1 THEN r ELSE Fail))

(***************************************************************************)
(* json.dumps(v, indent=2)                                                 *)
(***************************************************************************)

\* The four lower-case hexadecimal digits of k < 65536.
Hex4(k) ==
    LET digit(d) == IF d < 10 THEN 48 + d ELSE 87 + d
    IN  <<digit(k \div 4096), digit((k \div 256) % 16), digit((k \div 16) % 16),
          digit(k % 16)>>

\* One character of a string as json.dumps writes it (ensure_ascii).
DumpChar(c) ==
    IF c = 34 THEN S("\\\"")
    ELSE IF c = 92 THEN S("\\\\")
    ELSE IF c = 10 THEN S("\\n")
    ELSE IF c = 13 THEN S("\\r")
    ELSE IF c = 9 THEN S("\\t")
    ELSE IF c = 8 THEN S("\\b")
    ELSE IF c = 12 THEN S("\\f")
    ELSE IF c >= 32 /\ c <= 126 THEN <<c>>
    ELSE IF c < 65536 THEN S("\\u") \o Hex4(c)
    ELSE S("\\u") \o Hex4(55296 + ((c - 65536) \div 1024))
         \o S("\\u") \o Hex4(56320 + ((c - 65536) % 1024))

\* A string as json.dumps writes it.
DumpString(text) ==
    <<34>> \o Concat([k \in 1..Len(text) |-> DumpChar(text[k])]) \o <<34>>

\* The newline and indentation json.dumps puts before an item at a level.
NewlineIndent(level) == <<10>> \o [k \in 1..(2 * level) |-> 32]

RECURSIVE JsonDumps(_, _)
RECURSIVE DumpItems(_, _, _)
\* json.dumps(v, indent=2), v nested at the given level.
JsonDumps(v, level) ==
    IF v.t = "str" THEN DumpString(v.s)
    ELSE IF v.t = "int" THEN Repr(v)
    ELSE IF v.t = "float" THEN
        (IF v.s = S("nan") THEN S("NaN")
         ELSE IF v.s = S("inf") THEN S("Infinity")
         ELSE IF v.s = S("-inf") THEN S("-Infinity")
         ELSE FloatRepr(v))
    ELSE IF v.t = "bool" THEN (IF v.n = 1 THEN S("true") ELSE S("false"))
    ELSE IF v.t = "NoneType" THEN S("null")
    ELSE IF v.items = <<>> THEN (IF v.t = "dict" THEN S("{}") ELSE S("[]"))
    ELSE (IF v.t = "dict" THEN <<123>> ELSE <<91>>)
         \o DumpItems(v, 1, level + 1)
         \o NewlineIndent(level)
         \o (IF v.t = "dict" THEN <<125>> ELSE <<93>>)

\* The items of a non-empty list or dict from place i on.
DumpItems(v, i, level) ==
    IF i > Len(v.items) THEN <<>>
    ELSE (IF i > 1 THEN <<44>> ELSE <<>>)
         \o NewlineIndent(level)
         \o (IF v.t = "dict" THEN DumpString(v.keys[i]) \o S(": ") ELSE <<>>)
         \o JsonDumps(v.items[i], level)
         \o DumpItems(v, i + 1, level)

(***************************************************************************)
(* process_streaming_chunk                                                 *)
(***************************************************************************)

K_tool_use == S("tool_use")

K_tool_call == S("tool_call")

K_tool_result == S("tool_result")

K_thinking == S("thinking")

K_reasoning == S("reasoning")

K_step == S("step")

K_status == S("status")

K_content == S("content")

K_delta == S("delta")

K_text == S("text")

K_event == S("event")

K_name == S("name")

K_input == S("input")

K_arguments == S("arguments")

K_number == S("number")

K_description == S("description")

K_action == S("action")

\* Length past which a tool result's content string is cut for display.
ResultDisplayLimit == 200

\* What print(text) writes.
PrintLine(text) == text \o <<10>>

\* The call returned ret after printing out; branch names the rule whose
\* code ran last.
Returned(ret, out, branch) ==
    [raised |-> FALSE, ret |-> ret, out |-> out, branch |-> branch]

\* The call raised (AttributeError, TypeError) inside the named rule, before
\* it printed anything.
Raised(branch) == [raised |-> TRUE, ret |-> VNone, out |-> <<>>, branch |-> branch]

\* Tool usage events.
ToolUseEvent(json_data) ==
    LET tool_info == Get(json_data, K_tool_use,
                         Get(json_data, K_tool_call, VDict(<<>>, <<>>)))
        tool_name == Get(tool_info, K_name, VStr(S("unknown_tool")))
        tool_args == Get(tool_info, K_input,
                         Get(tool_info, K_arguments, VDict(<<>>, <<>>)))
    IN  IF ~IsDict(tool_info) THEN Raised("tool_use")
        ELSE Returned(VStr(<<>>),
                      <<PrintLine(S("\n[tool] ") \o Str(tool_name))>>
                      \o (IF Truthy(tool_args)
                          THEN <<PrintLine(JsonDumps(tool_args, 0))>> ELSE <<>>)
                      \o <<PrintLine(S("[status] running..."))>>,
                      "tool_use")

\* Tool results.
ToolResultEvent(json_data) ==
    LET result == Item(json_data, K_tool_result)
        content == Item(result, K_content)
    IN  Returned(VStr(<<>>),
                 <<PrintLine(S("\n[tool] completed"))>>
                 \o (IF IsDict(result) /\ HasKey(result, K_content)
                     THEN (IF IsStr(content) /\ Len(content.s) > ResultDisplayLimit
                           THEN <<PrintLine(S("[result] ")
                                            \o Take(content.s, ResultDisplayLimit)
                                            \o S("..."))>>
                           ELSE <<PrintLine(S("[result] ") \o Str(content))>>)
                     ELSE <<>>)
                 \o <<PrintLine(S("[status] agent continuing...\n"))>>,
                 "tool_result")

\* Thinking / reasoning.
ThinkingEvent(json_data) ==
    LET thinking == Get(json_data, K_thinking,
                        Get(json_data, K_reasoning, VStr(<<>>)))
    IN  Returned(VStr(<<>>), <<PrintLine(S("\n[thinking] ") \o Str(thinking))>>,
                 "thinking")

\* Step information.
StepEvent(json_data) ==
    LET step_info == Item(json_data, K_step)
        step_num == Get(step_info, K_number, VStr(S("?")))
        step_desc == Get(step_info, K_description,
                         Get(step_info, K_action, VStr(<<>>)))
    IN  IF ~IsDict(step_info) THEN Raised("step")
        ELSE Returned(VStr(<<>>),
                      <<PrintLine(S("\n[step ") \o Str(step_num) \o S("] ")
                                  \o Str(step_desc))>>,
                      "step")

\* Status updates.
StatusEvent(json_data) ==
    Returned(VStr(<<>>),
             <<PrintLine(S("\n[status] ") \o Str(Item(json_data, K_status)))>>,
             "status")

\* Whether a list item of content adds to text_parts.
AddsPart(item) == (IsDict(item) /\ HasKey(item, K_text)) \/ IsStr(item)

\* text_parts of a content list: item["text"] of the dicts that have it and
\* the items that are strings, in list order.
TextParts(content) ==
    Let(SelectSeq(content.items, AddsPart), LAMBDA kept :
        [k \in 1..Len(kept) |->
            IF IsDict(kept[k]) THEN Item(kept[k], K_text) ELSE kept[k]])

\* Content chunks (main assistant text).
ContentEvent(json_data) ==
    Let(Item(json_data, K_content), LAMBDA content :
        IF IsList(content) THEN
            Let(TextParts(content), LAMBDA text_parts :
                IF \E k \in 1..Len(text_parts) : ~IsStr(text_parts[k])
                THEN Raised("content")
                ELSE Returned(VStr(Concat([k \in 1..Len(text_parts) |->
                                              text_parts[k].s])),
                              <<>>, "content"))
        ELSE IF IsStr(content) THEN Returned(content, <<>>, "content")
        ELSE Returned(VStr(Str(content)), <<>>, "content"))

\* Whether the delta rule returns: delta is a dict with a content key, or a
\* string.  Any other delta falls through to the rules below it.
DeltaReturns(json_data) ==
    LET delta == Item(json_data, K_delta)
    IN  (IsDict(delta) /\ HasKey(delta, K_content)) \/ IsStr(delta)

\* Delta-style content.
DeltaEvent(json_data) ==
    LET delta == Item(json_data, K_delta)
    IN  IF IsDict(delta) /\ HasKey(delta, K_content)
        THEN Returned(Item(delta, K_content), <<>>, "delta")
        ELSE Returned(delta, <<>>, "delta")

\* Text field directly.
TextEvent(json_data) == Returned(Item(json_data, K_text), <<>>, "text")

\* Event markers.
EventMarker(json_data) ==
    Returned(VStr(<<>>),
             <<PrintLine(S("\n[event] ") \o Str(Item(json_data, K_event)))>>,
             "event")

\* A last rule that returns the string form of whatever no rule took.
UnrecognizedEchoed(json_data) == Returned(VStr(Str(json_data)), <<>>, "none")

\* No rule returned: the function falls off its rules and returns None.
Unrecognized(json_data) == Returned(VNone, <<>>, "none")

\* process_streaming_chunk(json_data)
ProcessStreamingChunk(json_data) ==
    IF IsDict(json_data) THEN
        (IF HasKey(json_data, K_tool_use) \/ HasKey(json_data, K_tool_call)
         THEN ToolUseEvent(json_data)
         ELSE IF HasKey(json_data, K_tool_result) THEN ToolResultEvent(json_data)
         ELSE IF HasKey(json_data, K_thinking) \/ HasKey(json_data, K_reasoning)
         THEN ThinkingEvent(json_data)
         ELSE IF HasKey(json_data, K_step) THEN StepEvent(json_data)
         ELSE IF HasKey(json_data, K_status) THEN StatusEvent(json_data)
         ELSE IF HasKey(json_data, K_content) THEN ContentEvent(json_data)
         ELSE IF HasKey(json_data, K_delta) /\ DeltaReturns(json_data)
         THEN DeltaEvent(json_data)
         ELSE IF HasKey(json_data, K_text) THEN TextEvent(json_data)
         ELSE IF HasKey(json_data, K_event) THEN EventMarker(json_data)
         ELSE Unrecognized(json_data))
    ELSE IF IsStr(json_data) THEN Returned(json_data, <<>>, "str")
    ELSE Unrecognized(json_data)

(***************************************************************************)
(* The transport and its inputs                                            *)
(***************************************************************************)

\* Lines read from the event stream in one invocation, at most.
MaxLines == 3

\* Non-empty reads of the response body in one invocation, at most.
MaxReads == 3

\* The prefix that marks an SSE payload line, and the stream-end sentinel.
DataPrefix == S("data: ")

DoneSentinel == S("[DONE]")

\* The content type that selects the SSE path.
SseMarker == S("text/event-stream")

\* Bytes asked of the body per read.
ReadSize == 64

\* Pending bytes past which an undecodable buffer is decoded lossily.
FlushThreshold == 4096

\* A line or a body the transport hands over as bytes.
AsBytes(text) == [isbytes |-> TRUE, data |-> Utf8Encode(text)]

\* A line or a body the transport hands over as str.
AsStr(text) == [isbytes |-> FALSE, data |-> text]

\* The content types a response reports.
ContentTypes ==
    {SseMarker, S("text/event-stream; charset=utf-8"), S("application/json"),
     <<>>}

\* The lines stream.iter_lines() may yield.
SseLines ==
    {AsBytes(DataPrefix \o S("{\"text\":\"hi\"}")),
     AsBytes(DataPrefix \o S("{\"content\":[{\"text\":\"a\"},\"b\",1]}")),
     AsBytes(DataPrefix \o S("{\"delta\":{\"content\":\"X\"}}  ")),
     AsBytes(DataPrefix \o S("{\"thinking\":\"T\"}")),
     AsBytes(DataPrefix \o S("{\"step\":1}")),
     AsBytes(DataPrefix \o S("{\"text\":5}")),
     AsBytes(DataPrefix \o S("{\"zzz\":1}")),
     AsBytes(DataPrefix \o DoneSentinel),
     AsBytes(DataPrefix \o S("  ")),
     AsBytes(DataPrefix \o S(" oops ")),
     AsBytes(S(" raw ")),
     AsBytes(S("data:{\"text\":\"z\"}")),
     AsBytes(<<>>),
     [isbytes |-> TRUE, data |-> Utf8Encode(DataPrefix) \o <<255>>],
     AsStr(DataPrefix \o S("\"s\""))}

\* Texts whose UTF-8 encoding the body may hold.
BodyTexts ==
    {S("{\"text\":\"hi\"}"),
     S("{\"text\":\"") \o <<233, 8364>> \o S("\"}"),
     S("{\"thinking\":\"T\"}"),
     S("{\"step\":1}"),
     S("{\"zzz\":1}\n"),
     S("[1,\"a\"]"),
     S("\"str\""),
     S("120"),
     S("{\"text\":\"a\"}{\"text\":\"b\"}"),
     S("1e5{\"text\":\"b\"}"),
     <<104, 233, 8364, 128512>>,
     S("{\"a\":"),
     <<>>}

\* The bodies response_data.read() may deliver, slice by slice: encoded
\* text, bytes that are not valid UTF-8, and a body read as str.
Bodies ==
    {AsBytes(text) : text \in BodyTexts}
    \cup {[isbytes |-> TRUE, data |-> <<34, 195, 34>>],
          [isbytes |-> TRUE, data |-> <<34, 97, 34, 226, 130>>],
          AsStr(S("{\"text\":\"s\"}"))}

\* What response.get("response") is when it has no read method: a str, or
\* None when the key is missing.
PlainResponses ==
    {VStr(S("{\"text\":\"hi\"}")), VStr(S("{\"thinking\":\"T\"}")),
     VStr(S("{\"step\":1}")), VStr(S("{\"text\":5}")), VStr(S("plain")), VNone}

(***************************************************************************)
(* State                                                                   *)
(***************************************************************************)

VARIABLES
    pc,                \* NotStarted, Draining, Complete, or Failed (the except branch)
    path,              \* none, sse, fallback, plain
    body,              \* the whole body the transport holds (fallback path)
    remaining,         \* the part of body not yet read
    content_parts,     \* stream_response: fragments collected, in order
    content_buffer,    \* handle_non_streaming_response: text decoded so far
    json_buffer,       \* handle_non_streaming_response: text not yet parsed
    byte_buffer,       \* handle_non_streaming_response: bytes not yet decoded
    stdout,            \* the print calls made since "[stream] starting...", in order
    ret,               \* what stream_response returned
    lines,             \* history: the lines iter_lines() yielded
    chunks,            \* history: the non-empty chunks read() returned
    parses,            \* history: the number of reads whose json.loads succeeded
    fragments,         \* history: the chunk_out values the fallback path printed
    arg,               \* the last argument of process_streaming_chunk
    result,            \* what that call did
    transport_failed,  \* history: the transport raised
    content_type       \* history: response.get("contentType", "")

vars ==
    <<pc, path, body, remaining, content_parts, content_buffer, json_buffer,
      byte_buffer, stdout, ret, lines, chunks, parses, fragments, arg, result,
      transport_failed, content_type>>

\* No value yet.
Unset == [t |-> "unset", s |-> <<>>, n |-> 0, keys |-> <<>>, items |-> <<>>]

\* No call of process_streaming_chunk yet.
NoResult == [raised |-> FALSE, ret |-> Unset, out |-> <<>>, branch |-> "unset"]

NoBody == [isbytes |-> TRUE, data |-> <<>>]

Init ==
    /\ pc = "NotStarted"
    /\ path = "none"
    /\ body = NoBody
    /\ remaining = <<>>
    /\ content_parts = <<>>
    /\ content_buffer = <<>>
    /\ json_buffer = <<>>
    /\ byte_buffer = <<>>
    /\ stdout = <<>>
    /\ ret = Unset
    /\ lines = <<>>
    /\ chunks = <<>>
    /\ parses = 0
    /\ fragments = <<>>
    /\ arg = Unset
    /\ result = NoResult
    /\ transport_failed = FALSE
    /\ content_type = <<>>

(***************************************************************************)
(* stream_response                                                         *)
(***************************************************************************)

\* print("=" * 60) with a newline before it, then the completion line.
CompleteLines ==
    <<PrintLine(<<10>> \o [k \in 1..60 |-> 61]), PrintLine(S("[stream] complete"))>>

\* print(f"[error] invoking agent: {e}"); the text of e is not modelled.
ErrorReport == PrintLine(S("[error] invoking agent: "))

\* The except branch of stream_response: report and return None.
Fails(out) ==
    /\ pc' = "Failed"
    /\ stdout' = stdout \o out \o <<ErrorReport>>
    /\ ret' = VNone

\* invoke_agent_runtime raises.
InvokeFails ==
    /\ pc = "NotStarted"
    /\ transport_failed' = TRUE
    /\ Fails(<<>>)
    /\ UNCHANGED <<content_type, path, body, remaining, content_parts, content_buffer,
                   json_buffer, byte_buffer, lines, chunks, parses, fragments,
                   arg, result>>

\* The response reports an event stream.  Without iter_lines on the stream
\* nothing is read and the empty transcript is returned at once.
InvokeSse ==
    /\ pc = "NotStarted"
    /\ \E ct \in ContentTypes, has_iter_lines \in BOOLEAN :
        /\ Contains(ct, SseMarker)
        /\ content_type' = ct
        /\ path' = "sse"
        /\ pc' = IF has_iter_lines THEN "Draining" ELSE "Complete"
        /\ stdout' = <<PrintLine(S("[stream] starting..."))>>
                     \o (IF has_iter_lines THEN <<>> ELSE CompleteLines)
        /\ ret' = IF has_iter_lines THEN Unset ELSE VStr(<<>>)
    /\ UNCHANGED <<body, remaining, content_parts, content_buffer, json_buffer,
                   byte_buffer, lines, chunks, parses, fragments, arg, result,
                   transport_failed>>

\* line_str of a line iter_lines() yielded.
LineStr(line) ==
    IF line.isbytes
    THEN (IF DecodeFails(line.data) THEN DecodeReplace(line.data)
          ELSE DecodeStrict(line.data))
    ELSE line.data

\* A loop that takes every line starting with "data:" for a data line.
StartsWithDataColon(line_str) == StartsWith(line_str, S("data:"))

\* line_str.startswith("data: ")
IsDataLine(line_str) == StartsWith(line_str, DataPrefix)

\* line_str[6:].strip()
DataContent(line_str) == Strip(SubSeq(line_str, Len(DataPrefix) + 1, Len(line_str)))

\* A loop that passes over the empty payload only.
IsEmptyPayload(data_content) == data_content = <<>>

\* Whether a payload is passed over: empty, or the stream-end sentinel.
IsNoOpPayload(data_content) ==
    data_content = <<>> \/ data_content = DoneSentinel

\* One pass of the loop body did this: raised out of the loop, appended
\* parts to content_parts, printed out, and called process_streaming_chunk
\* (called) on data with result res.
LineOutcome(raised, parts, out, called, data, res) ==
    [raised |-> raised, parts |-> parts, out |-> out, called |-> called,
     data |-> data, res |-> res]

\* A loop that passes over what it cannot parse or does not recognise.
Discarded(text) == LineOutcome(FALSE, <<>>, <<>>, FALSE, Unset, NoResult)

\* The line's text goes to the console and the transcript as it is.
PassedThrough(text) ==
    LineOutcome(FALSE, <<VStr(text)>>, <<text>>, FALSE, Unset, NoResult)

\* The loop body of stream_response for one line.
\* The try block of the loop body: the payload parsed to json_data.
ProcessPayload(json_data) ==
    Let(ProcessStreamingChunk(json_data), LAMBDA res :
        IF res.raised THEN LineOutcome(TRUE, <<>>, res.out, TRUE, json_data, res)
        ELSE IF Truthy(res.ret)
        THEN LineOutcome(FALSE, <<res.ret>>, res.out \o <<Str(res.ret)>>, TRUE,
                         json_data, res)
        ELSE LineOutcome(FALSE, <<>>, res.out, TRUE, json_data, res))

\* The loop body for a line that starts with the data prefix.
ProcessData(data_content) ==
    IF IsNoOpPayload(data_content)
    THEN LineOutcome(FALSE, <<>>, <<>>, FALSE, Unset, NoResult)
    ELSE Let(JsonLoads(data_content), LAMBDA loaded :
             IF loaded.ok THEN ProcessPayload(loaded.val)
             ELSE PassedThrough(data_content))

\* The loop body of stream_response for one line.
ProcessLine(line) ==
    IF line.data = <<>>
    THEN LineOutcome(FALSE, <<>>, <<>>, FALSE, Unset, NoResult)
    ELSE Let(LineStr(line), LAMBDA line_str :
             IF IsDataLine(line_str)
             THEN Let(DataContent(line_str), ProcessData)
             ELSE PassedThrough(line_str))

\* iter_lines() yields a line and the loop body runs on it.
ReadLine(line) ==
    /\ pc = "Draining"
    /\ path = "sse"
    /\ Len(lines) < MaxLines
    /\ lines' = Append(lines, line)
    /\ \E o \in {ProcessLine(line)} :
           /\ content_parts' = content_parts \o o.parts
           /\ arg' = IF o.called THEN o.data ELSE arg
           /\ result' = IF o.called THEN o.res ELSE result
           /\ IF o.raised
              THEN Fails(o.out)
              ELSE /\ stdout' = stdout \o o.out
                   /\ UNCHANGED <<pc, ret>>
    /\ UNCHANGED <<content_type, path, body, remaining, content_buffer, json_buffer,
                   byte_buffer, chunks, parses, fragments, transport_failed>>

\* iter_lines() is exhausted: the completion lines, then "".join, which
\* raises TypeError when a collected part is not a str.
SseExhausted ==
    /\ pc = "Draining"
    /\ path = "sse"
    /\ IF \A k \in 1..Len(content_parts) : IsStr(content_parts[k])
       THEN /\ pc' = "Complete"
            /\ stdout' = stdout \o CompleteLines
            /\ ret' = VStr(Concat([k \in 1..Len(content_parts) |->
                                      content_parts[k].s]))
       ELSE Fails(CompleteLines)
    /\ UNCHANGED <<content_type, path, body, remaining, content_parts, content_buffer,
                   json_buffer, byte_buffer, lines, chunks, parses, fragments,
                   arg, result, transport_failed>>

\* The transport raises while the stream or the body is being read.
TransportError ==
    /\ pc = "Draining"
    /\ transport_failed' = TRUE
    /\ Fails(<<>>)
    /\ UNCHANGED <<content_type, path, body, remaining, content_parts, content_buffer,
                   json_buffer, byte_buffer, lines, chunks, parses, fragments,
                   arg, result>>

(***************************************************************************)
(* handle_non_streaming_response                                           *)
(***************************************************************************)

\* The response does not report an event stream and its body has a read
\* method.
InvokeFallbackWith(bodies) ==
    /\ pc = "NotStarted"
    /\ \E ct \in ContentTypes, b \in bodies :
        /\ ~Contains(ct, SseMarker)
        /\ content_type' = ct
        /\ body' = b
        /\ remaining' = b.data
    /\ path' = "fallback"
    /\ pc' = "Draining"
    /\ stdout' = <<PrintLine(S("[stream] starting...")),
                   PrintLine(S("[stream] streaming body detected"))>>
    /\ UNCHANGED <<content_parts, content_buffer, json_buffer, byte_buffer, ret,
                   lines, chunks, parses, fragments, arg, result,
                   transport_failed>>

\* The body is one of Bodies.
InvokeFallback == InvokeFallbackWith(Bodies)

\* A loop body without the byte buffer: every chunk is decoded on its own,
\* lossily when it does not decode.
FeedEachChunkAlone(isbytes, chunk, pending) ==
    IF ~isbytes THEN [text |-> chunk, pending |-> pending]
    ELSE IF DecodeFails(chunk)
    THEN [text |-> DecodeReplace(chunk), pending |-> <<>>]
    ELSE [text |-> DecodeStrict(chunk), pending |-> <<>>]

\* What one chunk adds: text is chunk_str when the chunk (with the pending
\* bytes) decoded, empty when it did not; pending is byte_buffer afterwards.
Feed(isbytes, chunk, pending) ==
    IF ~isbytes THEN [text |-> chunk, pending |-> pending]
    ELSE Let(pending \o chunk, LAMBDA buf :
             IF ~DecodeFails(buf)
             THEN [text |-> DecodeStrict(buf), pending |-> <<>>]
             ELSE IF Len(buf) > FlushThreshold
             THEN [text |-> DecodeReplace(buf), pending |-> <<>>]
             ELSE [text |-> <<>>, pending |-> buf])

\* A parse attempt that leaves json_buffer as it is.
NeverCleared(ok, buffer) == buffer

\* json_buffer after the parse attempt: cleared when json.loads succeeded.
AfterParse(ok, buffer) == IF ok THEN <<>> ELSE buffer

\* The smaller of two numbers.
Min(a, b) == IF a < b THEN a ELSE b

\* read(64) returns the next k bytes and the loop body runs on them.
ReadStep(k, limit) ==
    /\ pc = "Draining"
    /\ path = "fallback"
    /\ Len(chunks) < limit
    /\ k \in 1..Min(ReadSize, Len(remaining))
    /\ chunks' = Append(chunks, SubSeq(remaining, 1, k))
    /\ remaining' = SubSeq(remaining, k + 1, Len(remaining))
    /\ \E fed \in {Feed(body.isbytes, SubSeq(remaining, 1, k), byte_buffer)} :
       \E loaded \in {JsonLoads(json_buffer \o fed.text)} :
       \E res \in {ProcessStreamingChunk(loaded.val)} :
           /\ byte_buffer' = fed.pending
           /\ content_buffer' = content_buffer \o fed.text
           /\ json_buffer' = AfterParse(loaded.ok, json_buffer \o fed.text)
           /\ parses' = IF loaded.ok THEN parses + 1 ELSE parses
           /\ arg' = IF loaded.ok THEN loaded.val ELSE arg
           /\ result' = IF loaded.ok THEN res ELSE result
           /\ fragments' = IF loaded.ok /\ ~res.raised /\ Truthy(res.ret)
                           THEN Append(fragments, res.ret) ELSE fragments
           /\ IF loaded.ok /\ res.raised
              THEN Fails(res.out)
              ELSE /\ stdout' = stdout
                                \o (IF loaded.ok THEN res.out ELSE <<>>)
                                \o (IF loaded.ok /\ Truthy(res.ret)
                                    THEN <<Str(res.ret)>> ELSE <<>>)
                   /\ UNCHANGED <<pc, ret>>
    /\ UNCHANGED <<content_type, path, body, content_parts, lines, transport_failed>>

\* read(64) returns any number of bytes from 1 to 64.
Read(k) == ReadStep(k, MaxReads)

\* An end of stream that drops the bytes still pending.
FlushNothing(pending) == <<>>

\* chunk_str at the end of the stream: the pending bytes, decoded lossily.
Flush(pending) == IF pending # <<>> THEN DecodeReplace(pending) ELSE <<>>

\* A function that returns no text at the end of the body.
ReturnsEmpty(content) == VStr(<<>>)

\* return content_buffer
FallbackReturn(content) == VStr(content)

\* read(64) returns nothing: pending bytes are decoded lossily, the loop
\* ends and content_buffer is returned.
ReadEof ==
    /\ pc = "Draining"
    /\ path = "fallback"
    /\ remaining = <<>>
    /\ \E chunk_str \in {Flush(byte_buffer)} :
           /\ content_buffer' = content_buffer \o chunk_str
           /\ json_buffer' = json_buffer \o chunk_str
           /\ ret' = FallbackReturn(content_buffer \o chunk_str)
    /\ pc' = "Complete"
    /\ stdout' = Append(stdout, PrintLine(S("\n[stream] complete")))
    /\ UNCHANGED <<content_type, path, body, remaining, content_parts, byte_buffer, lines,
                   chunks, parses, fragments, arg, result, transport_failed>>

\* What the branch without a read method prints and returns for
\* response_data: the classified value, or response_data itself when
\* anything raised.
PlainOutcome(response_data) ==
    Let(IF IsStr(response_data) THEN JsonLoads(response_data.s) ELSE Fail,
        LAMBDA loaded :
        Let(ProcessStreamingChunk(loaded.val), LAMBDA res :
            IF ~loaded.ok \/ res.raised
            THEN [out |-> (IF loaded.ok THEN res.out ELSE <<>>)
                          \o <<PrintLine(Str(response_data))>>,
                  ret |-> VStr(Str(response_data)), called |-> loaded.ok,
                  data |-> loaded.val, res |-> res]
            ELSE [out |-> res.out
                          \o (IF Truthy(res.ret)
                              THEN <<PrintLine(Str(res.ret))>> ELSE <<>>),
                  ret |-> res.ret, called |-> TRUE, data |-> loaded.val,
                  res |-> res]))

\* The response does not report an event stream and its body has no read
\* method.
InvokePlain ==
    /\ pc = "NotStarted"
    /\ \E ct \in ContentTypes, response_data \in PlainResponses :
        /\ ~Contains(ct, SseMarker)
        /\ content_type' = ct
        /\ \E o \in {PlainOutcome(response_data)} :
               /\ stdout' = <<PrintLine(S("[stream] starting..."))>> \o o.out
               /\ ret' = o.ret
               /\ arg' = IF o.called THEN o.data ELSE arg
               /\ result' = IF o.called THEN o.res ELSE result
    /\ path' = "plain"
    /\ pc' = "Complete"
    /\ UNCHANGED <<body, remaining, content_parts, content_buffer, json_buffer,
                   byte_buffer, lines, chunks, parses, fragments,
                   transport_failed>>

Next ==
    \/ InvokeFails
    \/ InvokeSse
    \/ InvokeFallback
    \/ InvokePlain
    \/ \E line \in SseLines : ReadLine(line)
    \/ SseExhausted
    \/ \E k \in 1..ReadSize : Read(k)
    \/ ReadEof
    \/ TransportError

Spec == Init /\ [][Next]_vars

(***************************************************************************)
(* handle_non_streaming_response on a long body read 64 bytes at a time    *)
(***************************************************************************)

\* Four-byte characters of a long body.
LongChars == 1040

\* Reads of a long body, at most.
MaxFullReads == 66

\* ASCII characters before the four-byte characters, at most: they shift
\* every 64-byte boundary into a character.
MaxLead == 3

\* U+1F600, which encodes to four bytes.
WideChar == 128512

\* Valid text: lead ASCII characters, then LongChars four-byte characters.
WideText(lead) == [k \in 1..(lead + LongChars) |-> IF k <= lead THEN 104 ELSE WideChar]

\* The long bodies read() delivers as bytes.
LongBodies == {AsBytes(WideText(lead)) : lead \in 0..MaxLead}

\* The body is one of LongBodies.
InvokeLong == InvokeFallbackWith(LongBodies)

\* read(64) returns 64 bytes, or all that is left of the body.
ReadFull == ReadStep(Min(ReadSize, Len(remaining)), MaxFullReads)

NextLong ==
    \/ InvokeLong
    \/ ReadFull
    \/ ReadEof
    \/ TransportError

SpecLong == Init /\ [][NextLong]_vars

(***************************************************************************)
(* process_streaming_chunk called on its own                               *)
(***************************************************************************)

\* Keys of one object, at most.
MaxKeys == 2

\* Items of one content list, at most.
MaxItems == 2

\* The keys the rules of process_streaming_chunk look up, and one they do not.
ClassifyKeys ==
    {K_tool_use, K_tool_call, K_tool_result, K_thinking, K_reasoning, K_step,
     K_status, K_content, K_delta, K_text, K_event, S("zzz")}

\* Values of the shapes the rules tell apart: str, int, dict.
ShapeValues ==
    {VStr(S("v")), VInt(5),
     VDict(<<K_content, K_name>>, <<VStr(S("c")), VStr(S("n"))>>)}

\* The items a content list may hold.
ContentItems ==
    {VDict(<<K_text>>, <<VStr(S("a"))>>), VStr(S("b")), VInt(1),
     VDict(<<S("x")>>, <<VStr(S("q"))>>), VDict(<<K_text>>, <<VInt(5)>>), VNone}

\* The values a delta key may hold.
DeltaValues ==
    {VDict(<<K_content>>, <<VStr(S("X"))>>), VDict(<<K_content>>, <<VInt(5)>>),
     VDict(<<K_content>>, <<VStr(<<>>)>>), VDict(<<S("x")>>, <<VStr(S("q"))>>),
     VStr(S("D")), VStr(<<>>), VInt(5), VNone}

\* The lengths of the tool_result content strings, on both sides of the
\* display limit.
ResultLengths == {0, 1, 199, 200, 201, 202, 260}

\* A text of n characters, no two neighbours alike.
LongText(n) == [k \in 1..n |-> 33 + (k % 90)]

\* Key sequences without repetition.
KeySeqs ==
    {ks \in UNION {[1..n -> ClassifyKeys] : n \in 0..MaxKeys} :
        \A i, j \in 1..Len(ks) : ks[i] = ks[j] => i = j}

\* The content lists.
ContentLists == UNION {[1..n -> ContentItems] : n \in 0..MaxItems}

\* Arguments that are no objects.
PlainValues == {VStr(S("plain")), VStr(<<>>), VInt(3), VNone, VBool(TRUE), VList(<<>>)}

\* json_data is one of the arguments process_streaming_chunk is called with.
IsClassifyInput(json_data) ==
    \/ \E ks \in KeySeqs : \E vals \in [1..Len(ks) -> ShapeValues] :
           json_data = VDict(ks, vals)
    \/ \E items \in ContentLists : json_data = VDict(<<K_content>>, <<VList(items)>>)
    \/ \E d \in DeltaValues : json_data = VDict(<<K_delta>>, <<d>>)
    \/ \E n \in ResultLengths :
           json_data = VDict(<<K_tool_result>>,
                             <<VDict(<<K_content>>, <<VStr(LongText(n))>>)>>)
    \/ json_data \in PlainValues

InitClassify ==
    /\ pc = "Classify"
    /\ path = "none"
    /\ body = NoBody
    /\ remaining = <<>>
    /\ content_parts = <<>>
    /\ content_buffer = <<>>
    /\ json_buffer = <<>>
    /\ byte_buffer = <<>>
    /\ stdout = <<>>
    /\ ret = Unset
    /\ lines = <<>>
    /\ chunks = <<>>
    /\ parses = 0
    /\ fragments = <<>>
    /\ IsClassifyInput(arg)
    /\ result = NoResult
    /\ transport_failed = FALSE
    /\ content_type = <<>>

\* One call of process_streaming_chunk(arg).
Classify ==
    /\ pc = "Classify"
    /\ \E res \in {ProcessStreamingChunk(arg)} :
        /\ result' = res
        /\ stdout' = stdout \o res.out
    /\ pc' = "Classified"
    /\ UNCHANGED <<content_type, path, body, remaining, content_parts, content_buffer,
                   json_buffer, byte_buffer, ret, lines, chunks, parses,
                   fragments, arg, transport_failed>>

NextClassify == Classify

SpecClassify == InitClassify /\ [][NextClassify]_vars

(***************************************************************************)
(* Properties                                                              *)
(***************************************************************************)

\* The payload of a line that carries the data prefix.
PayloadOf(line) == DataContent(LineStr(line))

\* A line "data: <JSON>": it decodes, carries the prefix, and its payload is
\* one JSON document.
IsJsonFrame(line) ==
    /\ StartsWith(LineStr(line), DataPrefix)
    /\ JsonLoads(PayloadOf(line)).ok

\* A line "data: [DONE]".
IsDoneFrame(line) ==
    /\ StartsWith(LineStr(line), DataPrefix)
    /\ PayloadOf(line) = DoneSentinel

\* The text fragment the classifier yields for a value; nothing when it
\* yields none.
FragmentOf(json_data) ==
    LET res == ProcessStreamingChunk(json_data)
    IN  IF ~res.raised /\ IsStr(res.ret) THEN res.ret.s ELSE <<>>

\* The transcript of a stream of JSON frames closed by a [DONE] line.
TranscriptOf(frames) ==
    Concat([k \in 1..(Len(frames) - 1) |->
                FragmentOf(JsonLoads(PayloadOf(frames[k])).val)])

\* C1: a complete stream of "data: <JSON>" lines closed by "data: [DONE]" is
\* drained to its end, and stream_response returns the concatenation of the
\* fragments the classifier yields for the frames.
C1_SseRoundTrip ==
    (path = "sse" /\ ~transport_failed
        /\ \A k \in 1..Len(lines) : IsJsonFrame(lines[k]) \/ IsDoneFrame(lines[k]))
    => /\ pc # "Failed"
       /\ (/\ pc = "Complete"
           /\ lines # <<>>
           /\ IsDoneFrame(lines[Len(lines)])
           /\ \A k \in 1..(Len(lines) - 1) : IsJsonFrame(lines[k]))
          => ret = VStr(TranscriptOf(lines))

\* The rule of process_streaming_chunk whose key comes first among the keys
\* an object holds.
FirstRule(d) ==
    IF HasKey(d, K_tool_use) \/ HasKey(d, K_tool_call) THEN "tool_use"
    ELSE IF HasKey(d, K_tool_result) THEN "tool_result"
    ELSE IF HasKey(d, K_thinking) \/ HasKey(d, K_reasoning) THEN "thinking"
    ELSE IF HasKey(d, K_step) THEN "step"
    ELSE IF HasKey(d, K_status) THEN "status"
    ELSE IF HasKey(d, K_content) THEN "content"
    ELSE IF HasKey(d, K_delta) THEN "delta"
    ELSE IF HasKey(d, K_text) THEN "text"
    ELSE IF HasKey(d, K_event) THEN "event"
    ELSE "none"

\* C2: an object that holds the keys of several rules is handled by the first
\* of those rules, whatever the shapes of the values: no later rule displays
\* or returns anything for it.
C2_FirstRuleWins ==
    (pc = "Classified" /\ IsDict(arg) /\ ~result.raised)
    => result.branch \in {FirstRule(arg), "none"}

\* C3: stream_response fails (reports an error and returns None) only when
\* the transport failed; otherwise the drain completes and a string is
\* returned, whatever the lines or chunks held.
C3_OnlyTransportFails ==
    /\ pc = "Failed" => transport_failed
    /\ (pc = "Complete" /\ path \in {"sse", "fallback"}) => IsStr(ret)

\* C4: on the fallback path the value returned is the concatenation of the
\* fragments the classifier produced for the parsed values.
C4_FallbackReturnsFragments ==
    (pc = "Complete" /\ path = "fallback")
    => ret = VStr(Concat([k \in 1..Len(fragments) |-> Str(fragments[k])]))

\* C5: the text a Thinking event carries is displayed only: it is no part of
\* the value returned, on the streaming path and on the fallback path.
C5_ThinkingNotReturned ==
    (pc = "Complete" /\ path \in {"sse", "fallback"} /\ result.branch = "thinking")
    => ~Contains(Str(ret), Str(Get(arg, K_thinking, Get(arg, K_reasoning, VStr(<<>>)))))

\* C6: when the UTF-8 encoding of a valid text is delivered in two chunks,
\* split at any byte offset, content_buffer after the second read is exactly
\* that text: nothing is lost, no replacement character is inserted, and the
\* decoding raises nothing.
C6_SplitTextDecodes ==
    \A text \in BodyTexts :
        (path = "fallback" /\ body = AsBytes(text) /\ Len(chunks) = 2 /\ remaining = <<>>)
        => /\ content_buffer = text
           /\ byte_buffer = <<>>
           /\ \A k \in 1..Len(content_buffer) : content_buffer[k] # REPLACEMENT
           /\ pc = "Failed" => (result.raised \/ transport_failed)

\* C6 happens: a text of 1, 2, 3 and 4 byte characters arrived in two chunks,
\* the first of which ends inside a character, and was decoded whole.
C6_SplitInsideCharacter ==
    /\ path = "fallback"
    /\ body = AsBytes(<<104, 233, 8364, 128512>>)
    /\ Len(chunks) = 2
    /\ remaining = <<>>
    /\ DecodeFails(chunks[1])
    /\ content_buffer = <<104, 233, 8364, 128512>>

\* The body holds one JSON document, of any type.
BodyIsJsonDocument ==
    /\ path = "fallback"
    /\ body.data # <<>>
    /\ IF body.isbytes
       THEN ~DecodeFails(body.data) /\ JsonLoads(DecodeStrict(body.data)).ok
       ELSE JsonLoads(body.data).ok

\* C7: when the body is one JSON document delivered in slices, json.loads
\* succeeds exactly once, on the read that delivers the last slice and on no
\* earlier read.
C7_ParsesOnLastSlice ==
    BodyIsJsonDocument
    => /\ parses <= 1
       /\ parses = 1 => remaining = <<>>
       /\ (remaining = <<>> /\ chunks # <<>>) => parses = 1

\* The text a content list item contributes: its text field when it is an
\* object holding one, itself when it is a string, nothing otherwise.
ItemText(item) ==
    IF IsDict(item) /\ HasKey(item, K_text) THEN Str(Item(item, K_text))
    ELSE IF IsStr(item) THEN item.s
    ELSE <<>>

\* The fragment of a content value.
ContentFragment(content) ==
    IF IsList(content)
    THEN VStr(Concat([k \in 1..Len(content.items) |-> ItemText(content.items[k])]))
    ELSE IF IsStr(content) THEN content
    ELSE VStr(Str(content))

\* C8: for an object handled by the content rule the fragment is the
\* concatenation of the items' texts when content is a list, content itself
\* when it is a string, and its string form otherwise; for one handled by
\* the delta rule it is delta.content when delta is an object holding that
\* key, and delta itself when delta is a string.
C8_ContentAndDeltaFragments ==
    (pc = "Classified" /\ IsDict(arg))
    => /\ FirstRule(arg) = "content"
          => (~result.raised /\ result.ret = ContentFragment(Item(arg, K_content)))
       /\ (FirstRule(arg) = "delta" /\ IsDict(Item(arg, K_delta))
             /\ HasKey(Item(arg, K_delta), K_content))
          => (~result.raised /\ result.ret = Item(Item(arg, K_delta), K_content))
       /\ (FirstRule(arg) = "delta" /\ IsStr(Item(arg, K_delta)))
          => (~result.raised /\ result.ret = Item(arg, K_delta))

\* An object none of whose keys a rule looks up.
UnrecognizedObject(v) == IsDict(v) /\ FirstRule(v) = "none"

\* A line "data: <JSON>" whose document is such an object.
UnrecognizedFrame(line) ==
    /\ line.data # <<>>
    /\ IsJsonFrame(line)
    /\ UnrecognizedObject(JsonLoads(PayloadOf(line)).val)

\* C9: a JSON object none of whose keys is recognized prints nothing,
\* contributes no fragment and raises nothing, and the drain goes on: on the
\* streaming path after the frame that carries it, on the fallback path after
\* the read that completes it.
C9_UnrecognizedIsSilent ==
    [][/\ (Len(lines') = Len(lines) + 1 /\ UnrecognizedFrame(lines'[Len(lines')]))
          => (pc' = "Draining" /\ UNCHANGED <<stdout, content_parts, ret>>)
       /\ (parses' = parses + 1 /\ UnrecognizedObject(arg'))
          => (pc' = "Draining" /\ ~result'.raised
              /\ UNCHANGED <<stdout, fragments, ret>>)]_vars

\* C9 happens: the stream held an unrecognized object and then a text event;
\* the drain completed and the transcript holds the text event's fragment only.
C9_DrainWentOn ==
    /\ path = "sse"
    /\ pc = "Complete"
    /\ Len(lines) = 2
    /\ UnrecognizedFrame(lines[1])
    /\ content_parts = <<VStr(S("hi"))>>
    /\ ret = VStr(S("hi"))

\* A line "data: " whose payload, trimmed, is empty or the sentinel [DONE].
NoOpFrame(line) ==
    /\ line.data # <<>>
    /\ StartsWith(LineStr(line), DataPrefix)
    /\ PayloadOf(line) \in {<<>>, DoneSentinel}

\* C10: a frame whose payload is empty or [DONE] changes nothing, neither the
\* console nor the transcript, and does not end the drain; the drain
\* completes only when the line producer is exhausted, never on a line.
C10_NoOpFrames ==
    [][/\ (Len(lines') = Len(lines) + 1 /\ NoOpFrame(lines'[Len(lines')]))
          => (pc' = "Draining" /\ UNCHANGED <<stdout, content_parts, ret>>)
       /\ (path = "sse" /\ pc = "Draining" /\ pc' = "Complete")
          => lines' = lines]_vars

\* C10 happens: [DONE] came first, then a blank payload, then a text event,
\* which was still classified and appended.
C10_FrameAfterDone ==
    /\ path = "sse"
    /\ pc = "Complete"
    /\ Len(lines) = 3
    /\ IsDoneFrame(lines[1])
    /\ NoOpFrame(lines[2])
    /\ PayloadOf(lines[2]) = <<>>
    /\ content_parts = <<VStr(S("hi"))>>
    /\ ret = VStr(S("hi"))

\* A line "data: <payload>" whose payload, trimmed, is neither empty nor the
\* sentinel and is no JSON document.
UnparsableFrame(line) ==
    /\ line.data # <<>>
    /\ StartsWith(LineStr(line), DataPrefix)
    /\ PayloadOf(line) \notin {<<>>, DoneSentinel}
    /\ ~JsonLoads(PayloadOf(line)).ok

\* C11: on the streaming path a payload that is no JSON document (and is
\* neither empty nor the sentinel) is not dropped: its trimmed text is printed
\* and appended to the transcript after the fragments collected before it,
\* and the drain goes on.
C11_UnparsablePayloadKept ==
    [][(Len(lines') = Len(lines) + 1 /\ UnparsableFrame(lines'[Len(lines')]))
       => /\ content_parts' = Append(content_parts, VStr(PayloadOf(lines'[Len(lines')])))
          /\ stdout' = Append(stdout, PayloadOf(lines'[Len(lines')]))
          /\ pc' = "Draining"
          /\ ret' = ret]_vars

\* C11 happens: "data:  oops " arrived between two text-bearing frames and
\* the transcript returned holds oops, trimmed, between their fragments.
C11_OopsInOrder ==
    /\ path = "sse"
    /\ pc = "Complete"
    /\ Len(lines) = 3
    /\ UnparsableFrame(lines[2])
    /\ LineStr(lines[2]) = S("data:  oops ")
    /\ content_parts = <<VStr(S("hi")), VStr(S("oops")), VStr(S("X"))>>
    /\ ret = VStr(S("hioopsX"))

\* A non-empty line that does not start with the six characters "data: ".
RawLine(line) ==
    /\ line.data # <<>>
    /\ ~StartsWith(LineStr(line), S("data: "))

\* C12: on the streaming path a non-empty line that does not start with
\* "data: ", the space included, is printed and appended to the transcript as
\* it is, after the fragments collected before it; so is a line that starts
\* with "data:" and goes straight on with the payload.
C12_RawLinePassedThrough ==
    [][(Len(lines') = Len(lines) + 1 /\ RawLine(lines'[Len(lines')]))
       => /\ content_parts' = Append(content_parts, VStr(LineStr(lines'[Len(lines')])))
          /\ stdout' = Append(stdout, LineStr(lines'[Len(lines')]))
          /\ pc' = "Draining"
          /\ ret' = ret]_vars

\* C12 happens: after a text frame came a line "data:{...}" without the space
\* and a line " raw "; both are in the transcript whole, in that order.
C12_RawLinesInOrder ==
    /\ path = "sse"
    /\ pc = "Complete"
    /\ Len(lines) = 3
    /\ LineStr(lines[2]) = S("data:{\"text\":\"z\"}")
    /\ LineStr(lines[3]) = S(" raw ")
    /\ content_parts = <<VStr(S("hi")), VStr(S("data:{\"text\":\"z\"}")), VStr(S(" raw "))>>
    /\ ret = VStr(S("hidata:{\"text\":\"z\"} raw "))

\* C13: when the first empty read ends a body of bytes, the bytes still
\* pending are decoded lossily and are part of the text returned: the value
\* returned is the lossy decoding of all the bytes received, so every byte
\* received is accounted for, malformed or truncated ones by a replacement
\* character.
C13_PendingBytesFlushed ==
    (path = "fallback" /\ pc = "Complete" /\ body.isbytes)
    => /\ Concat(chunks) = body.data
       /\ ret = VStr(DecodeReplace(Concat(chunks)))
       /\ content_buffer = ret.s

\* C13 happens: the body ended inside a three-byte character; the two bytes
\* left pending came back as one replacement character after the text.
C13_TruncatedTailFlushed ==
    /\ path = "fallback"
    /\ pc = "Complete"
    /\ body.data = <<34, 97, 34, 226, 130>>
    /\ Len(chunks) = 2
    /\ byte_buffer = <<226, 130>>
    /\ ret = VStr(<<34, 97, 34, REPLACEMENT>>)

\* Whether text s ends with text tail.
EndsWith(s, tail) ==
    /\ Len(tail) <= Len(s)
    /\ SubSeq(s, Len(s) - Len(tail) + 1, Len(s)) = tail

\* C14: when the body ends while json_buffer still holds text that never
\* parsed, that text is in the value returned as it is, at its end; the end
\* of the body runs no parse and no classification on it.
C14_UnparsedRemainderReturned ==
    [][(path = "fallback" /\ pc = "Draining" /\ pc' = "Complete")
       => /\ EndsWith(ret'.s, json_buffer')
          /\ StartsWith(json_buffer', json_buffer)
          /\ UNCHANGED <<parses, arg, result, fragments>>
          /\ stdout' = Append(stdout, PrintLine(S("\n[stream] complete")))]_vars

\* C14 happens: the body {"a": ended before its value; nothing was parsed and
\* the text came back whole.
C14_RemainderCameBack ==
    /\ path = "fallback"
    /\ pc = "Complete"
    /\ body = AsBytes(S("{\"a\":"))
    /\ parses = 0
    /\ json_buffer = S("{\"a\":")
    /\ ret = VStr(S("{\"a\":"))

\* C15: when the transport fails after fragments were collected, the
\* invocation ends with one failure report and the fragments collected so
\* far are what it hands back to its caller.
C15_PartialTranscriptKept ==
    (pc = "Failed" /\ transport_failed /\ path = "sse" /\ content_parts # <<>>)
    => /\ stdout[Len(stdout)] = ErrorReport
       /\ \A k \in 1..(Len(stdout) - 1) : stdout[k] # ErrorReport
       /\ ret = VStr(Concat([k \in 1..Len(content_parts) |-> Str(content_parts[k])]))

\* What the console shows of a tool_result content string.
ShownResult(content) ==
    IF Len(content) <= 200 THEN content
    ELSE SubSeq(content, 1, 200) \o S("...")

\* The content string of a tool_result object.
ResultContent(json_data) == Item(Item(json_data, K_tool_result), K_content)

\* C16: when the content of a tool_result is a string, the console shows the
\* whole string if it has at most 200 characters and its first 200 characters
\* followed by "..." if it has more, whatever its length; the event
\* contributes no fragment.
C16_ResultTruncatedAt200 ==
    (/\ pc = "Classified"
     /\ IsDict(arg)
     /\ FirstRule(arg) = "tool_result"
     /\ IsDict(Item(arg, K_tool_result))
     /\ HasKey(Item(arg, K_tool_result), K_content)
     /\ IsStr(ResultContent(arg)))
    => /\ ~result.raised
       /\ ~Truthy(result.ret)
       /\ result.out = <<PrintLine(S("\n[tool] completed")),
                         PrintLine(S("[result] ") \o ShownResult(ResultContent(arg).s)),
                         PrintLine(S("[status] agent continuing...\n"))>>

\* C16 happens: a content string of 201 characters was shown as 200
\* characters and "...".
C16_Shown201 ==
    /\ pc = "Classified"
    /\ IsDict(arg)
    /\ FirstRule(arg) = "tool_result"
    /\ IsDict(Item(arg, K_tool_result))
    /\ HasKey(Item(arg, K_tool_result), K_content)
    /\ ResultContent(arg) = VStr(LongText(201))
    /\ Len(result.out) = 3
    /\ result.out[2] = PrintLine(S("[result] ") \o LongText(200) \o S("..."))

\* The length of the longest prefix of bytes b that is valid UTF-8.
ValidPrefixLen(b) ==
    CHOOSE n \in 0..Len(b) :
        /\ ~DecodeFails(SubSeq(b, 1, n))
        /\ \A m \in (n + 1)..Len(b) : DecodeFails(SubSeq(b, 1, m))

\* C17: after every read of a body of bytes, byte_buffer holds only the
\* incomplete multi-byte sequence the bytes received end with: at most 3
\* bytes, no complete character among them, and the longest valid prefix of
\* the bytes received is already in the decoded text.
C17_PendingIsTruncatedTail ==
    (path = "fallback" /\ body.isbytes /\ pc = "Draining")
    => /\ Len(byte_buffer) <= 3
       /\ \A i \in 1..Len(byte_buffer) : ~Complete(byte_buffer, i)
       /\ content_buffer =
            DecodeStrict(SubSeq(Concat(chunks), 1, ValidPrefixLen(Concat(chunks))))

\* C18: when the first empty read ends the body, the text flushed from
\* byte_buffer still goes through a last parse attempt: a JSON value that the
\* flushed text completes is parsed and classified (and json_buffer cleared)
\* before the function returns, so no complete JSON value is left in
\* json_buffer.
C18_FinalParseAttempt ==
    (path = "fallback" /\ pc = "Complete" /\ byte_buffer # <<>>)
    => ~JsonLoads(json_buffer).ok

\* The text a step added to content_buffer.
DecodedByStep == SubSeq(content_buffer', Len(content_buffer) + 1, Len(content_buffer'))

\* C19: after the parse attempt of each read json_buffer is empty if
\* json.loads succeeded and otherwise is what it was followed by the text
\* that read decoded, nothing cut off; and it always is the end of all the
\* text decoded so far.
C19_AccumulatorInvariant ==
    [][/\ StartsWith(content_buffer', content_buffer)
       /\ EndsWith(content_buffer', json_buffer')
       /\ Len(chunks') = Len(chunks) + 1
          => IF JsonLoads(json_buffer \o DecodedByStep).ok
             THEN json_buffer' = <<>> /\ parses' = parses + 1
             ELSE json_buffer' = json_buffer \o DecodedByStep /\ parses' = parses]_vars

\* C19 happens: {"text":"hi"} came in three reads; two attempts failed and
\* kept the text, the third succeeded and left json_buffer empty.
C19_ClearedOnThirdRead ==
    /\ path = "fallback"
    /\ pc = "Draining"
    /\ body = AsBytes(S("{\"text\":\"hi\"}"))
    /\ Len(chunks) = 3
    /\ parses = 1
    /\ json_buffer = <<>>
    /\ content_buffer = S("{\"text\":\"hi\"}")

\* C20: the invocation goes NotStarted, Draining, Complete and never back;
\* it takes the streaming path exactly when the content type holds the
\* marker text/event-stream and the fallback handler otherwise; a step reads
\* at most one line or chunk; the drain completes exactly when the line
\* producer is exhausted or the first empty read comes, not before and not
\* otherwise; nothing is read once it is complete; and it ends otherwise
\* only when the transport failed.
C20_StateMachine ==
    [][/\ pc = "NotStarted" => pc' \in {"Draining", "Complete", "Failed"}
       /\ pc = "Draining" => pc' \in {"Draining", "Complete", "Failed"}
       /\ pc \in {"Complete", "Failed"} => pc' = pc
       /\ (pc = "NotStarted" /\ pc' # "Failed")
          => /\ path' = "sse" <=> Contains(content_type', S("text/event-stream"))
             /\ path' \in {"sse", "fallback", "plain"}
       /\ pc # "NotStarted" => path' = path
       /\ Len(lines') \in {Len(lines), Len(lines) + 1}
       /\ Len(chunks') \in {Len(chunks), Len(chunks) + 1}
       /\ (pc = "Draining" /\ pc' = "Complete")
          => lines' = lines /\ chunks' = chunks /\ remaining = <<>>
       /\ (pc = "Draining" /\ lines' = lines /\ chunks' = chunks /\ ~transport_failed')
          => pc' = "Complete"
       /\ pc' = "Failed" => transport_failed'
       /\ pc # "Draining" => (lines' = lines /\ chunks' = chunks)]_vars


\* C21: in the fallback path, valid text delivered in any number of chunks
\* cut at any byte offsets is decoded whole: the text decoded over the drain
\* never holds the replacement marker and, once the end-of-stream flush is
\* done, equals the original text, also when every chunk boundary falls
\* inside a character and the pending bytes grow past the flush threshold.
C21_AnySlicingDecodes ==
    (path = "fallback" /\ body.isbytes /\ ~DecodeFails(body.data)) =>
        /\ \A k \in 1..Len(content_buffer) : content_buffer[k] # REPLACEMENT
        /\ pc = "Complete" => content_buffer = DecodeStrict(body.data)


\* Whether buf is a complete JSON value followed by further non-whitespace
\* text.
ValueThenText(buf) ==
    Let(ScanOnce(buf, SkipWs(buf, 1)), LAMBDA r :
        r.ok /\ SkipWs(buf, r.end) <= Len(buf))

\* Whether the value buf starts with is a number and the character after it
\* opens a fraction or an exponent.
NumberMayGoOn(buf) ==
    Let(ScanOnce(buf, SkipWs(buf, 1)), LAMBDA r :
        r.ok /\ r.val.t \in {"int", "float"} /\ At(buf, r.end) \in {46, 101, 69})

\* A step in which no parse attempt succeeded: nothing is classified or
\* displayed and json_buffer keeps all it held.
NothingParsed ==
    /\ parses' = parses
    /\ arg' = arg
    /\ result' = result
    /\ fragments' = fragments
    /\ StartsWith(json_buffer', json_buffer)
    /\ Len(chunks') > Len(chunks) => stdout' = stdout

\* C22 as stated: once json_buffer holds a complete JSON value followed by
\* further non-whitespace text, no later parse attempt succeeds, json_buffer
\* is never cleared again and no further event is classified or displayed.
C22_NoParseAfterExtraData ==
    [][(path = "fallback" /\ ValueThenText(json_buffer))
       => (NothingParsed /\ ValueThenText(json_buffer'))]_vars

\* C22, amended: once json_buffer holds a complete JSON value followed by
\* further non-whitespace text that cannot continue the value as a number
\* (the value is not a number, or the character after it is none of ".",
\* "e", "E"), the parse attempt on it fails and so does every later one:
\* json_buffer is never cleared again and no further event is classified or
\* displayed for the rest of the stream.
C22_NoParseAfterValueAndText ==
    [][/\ (path = "fallback" /\ Len(chunks') > Len(chunks)
           /\ ValueThenText(json_buffer \o DecodedByStep)
           /\ ~NumberMayGoOn(json_buffer \o DecodedByStep))
          => (NothingParsed /\ json_buffer' = json_buffer \o DecodedByStep)
       /\ (path = "fallback" /\ ValueThenText(json_buffer)
           /\ ~NumberMayGoOn(json_buffer))
          => (NothingParsed /\ ValueThenText(json_buffer')
              /\ ~NumberMayGoOn(json_buffer'))]_vars

\* C22 happens: the first read brought {"text":"a"} and the start of the
\* next value, a later read the rest; nothing was parsed, classified or
\* displayed and the whole text came back from the accumulator.
C22_SecondValueNeverParsed ==
    /\ path = "fallback"
    /\ pc = "Complete"
    /\ body = AsBytes(S("{\"text\":\"a\"}{\"text\":\"b\"}"))
    /\ Len(chunks) >= 2
    /\ Len(chunks[1]) > 12
    /\ parses = 0
    /\ fragments = <<>>
    /\ json_buffer = DecodeStrict(body.data)
    /\ Len(stdout) = 3

====
